---- MODULE Spec2Model ----
(***************************************************************************)
(* Model of src/bot/bot.service.ts (BotService): the message handler       *)
(* botOnMessage, the /search handler botOnSearchCommand, mention           *)
(* resolution, chat-id conversion and the formatting of search hits.       *)
(*                                                                         *)
(* Strings are sequences of one-character strings.  The three fixed        *)
(* non-ASCII literals of the reply are single tokens (HeaderText,          *)
(* NotFoundText, ColonText, JumpText).  An optional value (undefined in    *)
(* the source) is None, a present one is Some(v).                          *)
(***************************************************************************)
EXTENDS Integers, Sequences, FiniteSets, TLC

VARIABLES userMap, runs, queued, fetched, imaged, searched, replied, probe

vars == <<userMap, runs, queued, fetched, imaged, searched, replied, probe>>

(***************************************************************************)
(* Optional values and JavaScript strings                                  *)
(***************************************************************************)
None == <<>>

Some(v) == <<v>>

Has(o) == o # <<>>

Val(o) == o[1]

\* JavaScript truthiness of an optional string: undefined and '' are falsy.
TruthyStr(o) == Has(o) /\ Val(o) # <<>>

\* JavaScript truthiness of an optional number: undefined and 0 are falsy.
TruthyNum(o) == Has(o) /\ Val(o) # 0

Min(a, b) == IF a < b THEN a ELSE b

StartsWith(s, p) == Len(s) >= Len(p) /\ SubSeq(s, 1, Len(p)) = p

\* s.replace(/^p/, r) for a literal prefix p
ReplacePrefix(s, p, r) ==
  IF StartsWith(s, p) THEN r \o SubSeq(s, Len(p) + 1, Len(s)) ELSE s

\* s.substring(a, b) with JavaScript's 0-based, end-exclusive, clamped indices
Substring(s, a, b) ==
  LET lo == Min(a, Len(s))
      hi == Min(b, Len(s))
  IN  IF lo <= hi THEN SubSeq(s, lo + 1, hi) ELSE SubSeq(s, hi + 1, lo)

Digit(d) == <<"0", "1", "2", "3", "4", "5", "6", "7", "8", "9">>[d + 1]

IsDigit(c) == c \in {"0", "1", "2", "3", "4", "5", "6", "7", "8", "9"}

DigitVal(c) == CHOOSE d \in 0..9 : Digit(d) = c

RECURSIVE NatStr(_)
NatStr(n) == IF n < 10 THEN <<Digit(n)>> ELSE NatStr(n \div 10) \o <<Digit(n % 10)>>

\* `${n}` for an integer n
NumStr(n) == IF n < 0 THEN <<"-">> \o NatStr(0 - n) ELSE NatStr(n)

RECURSIVE DigitsVal(_)
DigitsVal(s) ==
  IF s = <<>> THEN 0
  ELSE 10 * DigitsVal(SubSeq(s, 1, Len(s) - 1)) + DigitVal(s[Len(s)])

AllDigits(s) == s # <<>> /\ \A i \in 1..Len(s) : IsDigit(s[i])

NaN == [nan |-> TRUE, val |-> 0]

Num(n) == [nan |-> FALSE, val |-> n]

\* Number(s) over strings of digits, '-', '+' and letters: '' is 0, an
\* optionally signed run of digits is its value, anything else is NaN.
JSNumber(s) ==
  IF s = <<>> THEN Num(0)
  ELSE IF AllDigits(s) THEN Num(DigitsVal(s))
  ELSE IF s[1] = "-" /\ AllDigits(Tail(s)) THEN Num(0 - DigitsVal(Tail(s)))
  ELSE IF s[1] = "+" /\ AllDigits(Tail(s)) THEN Num(DigitsVal(Tail(s)))
  ELSE NaN

(***************************************************************************)
(* ChatIdentity                                                            *)
(***************************************************************************)
supergroupStr == <<"s", "u", "p", "e", "r", "g", "r", "o", "u", "p">>

groupStr == <<"g", "r", "o", "u", "p">>

privateStr == <<"p", "r", "i", "v", "a", "t", "e">>

channelStr == <<"c", "h", "a", "n", "n", "e", "l">>

userStr == <<"u", "s", "e", "r">>

\* const realId = `${chat.id}`.replace(/^-100/, '')
realId(chat) == ReplacePrefix(NumStr(chat.id), <<"-", "1", "0", "0">>, <<>>)

\* const chatId = `${chat.type}${realId}`
chatId(chat) == chat.type \o realId(chat)

chatId2ApiId(cid) ==
  JSNumber(ReplacePrefix(ReplacePrefix(cid, supergroupStr, <<"-", "1", "0", "0">>),
                         groupStr, <<"-">>))

(***************************************************************************)
(* Inbound events.  A context carries what grammy's Context getters give:  *)
(* chat, msg, from (each possibly undefined), match, and whether the       *)
(* router's command('search') filter matches the update.  On the platform  *)
(* a message and its chat are always present on a message update and the   *)
(* sender is absent only on channel posts.                                 *)
(***************************************************************************)
MaxEvents == 2

MaxMsgId == 2

MaxUsers == 2

MaxHits == 2

alStr == <<"a", "l">>

boStr == <<"b", "o">>

UserIds == 7..(6 + MaxUsers)

\* user 7 has no last name; the highest id also occurs without a username
Users ==
  { [id |-> i, username |-> Some(alStr), first_name |-> <<"N", Digit(i % 10)>>,
     last_name |-> IF i = 7 THEN None ELSE Some(<<"Z">>)] : i \in UserIds }
  \cup { [id |-> 6 + MaxUsers, username |-> None, first_name |-> <<"N">>,
          last_name |-> Some(<<"Z">>)] }

Chats ==
  { [type |-> supergroupStr, id |-> 0 - 1001],
    [type |-> groupStr, id |-> 0 - 5],
    [type |-> privateStr, id |-> 7],
    [type |-> channelStr, id |-> 0 - 1002] }

\* PhotoSize[] as the platform sends it: ascending widths
PhotoList == << [width |-> 90, file_id |-> "f90"], [width |-> 320, file_id |-> "f320a"],
                [width |-> 320, file_id |-> "f320b"] >>

hiStr == <<"h", "i">>

slashStr == <<"/", "x">>

\* text, caption, photo of a message that is no /search command
Contents ==
  { [text |-> Some(hiStr), caption |-> None, photo |-> None],
    [text |-> Some(slashStr), caption |-> None, photo |-> None],
    [text |-> None, caption |-> Some(hiStr), photo |-> Some(PhotoList)],
    [text |-> None, caption |-> Some(slashStr), photo |-> Some(PhotoList)],
    [text |-> None, caption |-> None, photo |-> Some(PhotoList)],
    [text |-> None, caption |-> None, photo |-> None] }

\* a channel post has no sender; in a private chat the sender is the chat's user
Senders(chat) ==
  IF chat.type = channelStr THEN {None}
  ELSE IF chat.type = privateStr THEN {Some(u) : u \in {x \in Users : x.id = chat.id}}
  ELSE {Some(u) : u \in Users}

Message(mid, c, ents) ==
  [message_id |-> mid, date |-> 1600 + mid, text |-> c.text, caption |-> c.caption,
   photo |-> c.photo, entities |-> ents]

MessageCtxs ==
  UNION { { [chat |-> Some(ch), msg |-> Some(Message(mid, c, None)), from |-> f,
             match |-> None, command |-> FALSE] :
              mid \in 1..MaxMsgId, c \in Contents, f \in Senders(ch) } : ch \in Chats }

(***************************************************************************)
(* MessageNormalizer: botOnMessage and handlePhoto                         *)
(***************************************************************************)
\* [firstName, lastName].filter((x) => x).join(' ')
joinNames(firstName, lastName) ==
  IF firstName = <<>>
    THEN (IF TruthyStr(lastName) THEN Val(lastName) ELSE <<>>)
    ELSE (IF TruthyStr(lastName) THEN firstName \o <<" ">> \o Val(lastName) ELSE firstName)

\* userMapSet that keeps the id a username was first seen with
userMapSetIfAbsent(um, from) ==
  IF TruthyStr(from.username) /\ Val(from.username) \notin DOMAIN um
    THEN [n \in DOMAIN um \cup {Val(from.username)} |->
            IF n = Val(from.username) THEN from.id ELSE um[n]]
    ELSE um

\* if (from.username) this.userMap.set(from.username, from.id)
userMapSet(um, from) ==
  IF TruthyStr(from.username)
    THEN [n \in DOMAIN um \cup {Val(from.username)} |->
            IF n = Val(from.username) THEN from.id ELSE um[n]]
    ELSE um

\* const searchable = msg?.text || msg?.caption
searchable(msg) == IF TruthyStr(msg.text) THEN msg.text ELSE msg.caption

\* eligible without the chat-kind return
eligibleAnyChat(chat, msg) ==
  /\ TruthyStr(searchable(msg))
  /\ ~StartsWith(Val(searchable(msg)), <<"/">>)

\* eligible without the startsWith('/') test
eligibleNoCommandCheck(chat, msg) ==
  /\ chat.type = supergroupStr
  /\ TruthyStr(searchable(msg))

\* the two early returns after the directory write: chat kind, then payload
eligible(chat, msg) ==
  /\ chat.type = supergroupStr
  /\ TruthyStr(searchable(msg))
  /\ ~StartsWith(Val(searchable(msg)), <<"/">>)

\* baseMessage with a single '_' between chat id and message id
baseMessageOneUnderscore(i, chat, msg, from) ==
  [id |-> chatId(chat) \o <<"_">> \o NumStr(msg.message_id),
   messageId |-> msg.message_id,
   chatId |-> chatId(chat),
   fromId |-> userStr \o NumStr(from.id),
   fromName |-> joinNames(from.first_name, from.last_name),
   text |-> Val(searchable(msg)),
   raw |-> i,
   from |-> "bot",
   timestamp |-> msg.date * 1000]

\* baseMessage with nothing between chat id and message id
baseMessageNoSeparator(i, chat, msg, from) ==
  [id |-> chatId(chat) \o NumStr(msg.message_id),
   messageId |-> msg.message_id,
   chatId |-> chatId(chat),
   fromId |-> userStr \o NumStr(from.id),
   fromName |-> joinNames(from.first_name, from.last_name),
   text |-> Val(searchable(msg)),
   raw |-> i,
   from |-> "bot",
   timestamp |-> msg.date * 1000]

\* the record built for an eligible message; raw is a reference to the
\* message object of handler run i (runs[i].ctx.msg)
baseMessage(i, chat, msg, from) ==
  [id |-> chatId(chat) \o <<"_", "_">> \o NumStr(msg.message_id),
   messageId |-> msg.message_id,
   chatId |-> chatId(chat),
   fromId |-> userStr \o NumStr(from.id),
   fromName |-> joinNames(from.first_name, from.last_name),
   text |-> Val(searchable(msg)),
   raw |-> i,
   from |-> "bot",
   timestamp |-> msg.date * 1000]

\* photos.sort((a, b) => b.width - a.width): stable, descending by width
RECURSIVE insertDesc(_, _)
insertDesc(sorted, p) ==
  IF sorted = <<>> THEN <<p>>
  ELSE IF sorted[Len(sorted)].width >= p.width THEN Append(sorted, p)
  ELSE Append(insertDesc(SubSeq(sorted, 1, Len(sorted) - 1), p), sorted[Len(sorted)])

RECURSIVE sortDesc(_)
sortDesc(photos) ==
  IF photos = <<>> THEN <<>>
  ELSE insertDesc(sortDesc(SubSeq(photos, 1, Len(photos) - 1)), photos[Len(photos)])

\* getLargestPhoto: the array is sorted in place and its first element returned
getLargestPhoto(photos) == sortDesc(photos)[1]

setPc(i, pc) == [runs EXCEPT ![i].pc = pc]

\* microtaskPending when next() gives way to the event loop
microtaskPendingNever == FALSE

\* A handler whose await resolved without input or output (next() of a plain
\* message, the guard return of the search handler, getMentionUserId, the
\* return of the search handler into botOnMessage) continues in a microtask:
\* the event loop runs it before it takes the next update or completion.
microtaskPending ==
  \E i \in 1..Len(runs) : runs[i].pc \in {"next", "mention", "resume"}

\* dropped without the test of the sender
droppedNoSenderCheck(c) == ~Has(c.chat) \/ ~Has(c.msg)

\* if (!chat || !msg || !from) return
dropped(c) == ~Has(c.chat) \/ ~Has(c.msg) \/ ~Has(c.from)

\* remember that writes the directory for supergroup chats only
rememberSupergroupOnly(um, chat, from) ==
  IF chat.type = supergroupStr THEN userMapSet(um, from) ELSE um

\* the directory write stands before the chat-kind and payload returns
remember(um, chat, from) == userMapSet(um, from)

\* The transport hands an update to the middleware chain: botOnMessage starts
\* and awaits next().
Deliver(c) ==
  /\ ~microtaskPending
  /\ Len(runs) < MaxEvents
  /\ runs' = Append(runs, [pc |-> "next", ctx |-> c, mention |-> None, hits |-> None])
  /\ UNCHANGED <<userMap, queued, fetched, imaged, searched, replied, probe>>

DeliverMessage == \E c \in MessageCtxs : Deliver(c)

\* botOnMessage after next() has resolved, up to the call of queueMessage
botOnMessage(i) ==
  LET c == runs[i].ctx IN
  /\ \/ runs[i].pc = "next" /\ ~c.command
     \/ runs[i].pc = "resume"
  /\ IF dropped(c)
       THEN /\ runs' = setPc(i, "done")
            /\ UNCHANGED <<userMap, queued>>
       ELSE IF ~Has(c.chat) \/ ~Has(c.msg) \/ ~Has(c.from)
         \* from.username, chat.id or msg.text of undefined: a TypeError
         THEN /\ runs' = setPc(i, "raised")
              /\ UNCHANGED <<userMap, queued>>
         ELSE
            LET chat == Val(c.chat)
                msg == Val(c.msg)
                from == Val(c.from)
            IN  /\ userMap' = remember(userMap, chat, from)
                /\ IF eligible(chat, msg)
                     THEN /\ queued' = Append(queued,
                                 [run |-> i, rec |-> baseMessage(i, chat, msg, from)])
                          /\ runs' = setPc(i, "queue")
                     ELSE /\ runs' = setPc(i, "done")
                          /\ UNCHANGED queued
  /\ UNCHANGED <<fetched, imaged, searched, replied, probe>>

\* queueMessage resolved: the photo branch, handlePhoto up to fetchFile
QueueOk(i) ==
  LET msg == Val(runs[i].ctx.msg) IN
  /\ ~microtaskPending
  /\ runs[i].pc = "queue"
  /\ IF Has(msg.photo) /\ Len(Val(msg.photo)) > 0
       THEN /\ runs' = [runs EXCEPT ![i].pc = "fetch",
                                    ![i].ctx.msg = Some([msg EXCEPT !.photo =
                                                     Some(sortDesc(Val(msg.photo)))])]
            /\ fetched' = Append(fetched,
                   [run |-> i, file_id |-> getLargestPhoto(Val(msg.photo)).file_id])
       ELSE /\ runs' = setPc(i, "done")
            /\ UNCHANGED fetched
  /\ UNCHANGED <<userMap, queued, imaged, searched, replied, probe>>

\* Reject with the error caught: the handler ends normally
RejectSwallowed(i, at) ==
  /\ ~microtaskPending
  /\ runs[i].pc = at
  /\ runs' = setPc(i, "done")
  /\ UNCHANGED <<userMap, queued, fetched, imaged, searched, replied, probe>>

\* a collaborator call rejected: the error propagates out of the handler
Reject(i, at) ==
  /\ ~microtaskPending
  /\ runs[i].pc = at
  /\ runs' = setPc(i, "raised")
  /\ UNCHANGED <<userMap, queued, fetched, imaged, searched, replied, probe>>

QueueFail(i) == Reject(i, "queue")

\* getFile, fetch and res.buffer() resolved: indexImage is called
FetchOk(i) ==
  LET c == runs[i].ctx IN
  /\ ~microtaskPending
  /\ runs[i].pc = "fetch"
  /\ imaged' = Append(imaged,
         [run |-> i, bufs |-> <<fetched[CHOOSE k \in 1..Len(fetched) : fetched[k].run = i].file_id>>,
          rec |-> baseMessage(i, Val(c.chat), Val(c.msg), Val(c.from))])
  /\ runs' = setPc(i, "image")
  /\ UNCHANGED <<userMap, queued, fetched, searched, replied, probe>>

FetchFail(i) == Reject(i, "fetch")

ImageOk(i) ==
  /\ ~microtaskPending
  /\ runs[i].pc = "image"
  /\ runs' = setPc(i, "done")
  /\ UNCHANGED <<userMap, queued, fetched, imaged, searched, replied, probe>>

ImageFail(i) == Reject(i, "image")

(***************************************************************************)
(* /search commands                                                        *)
(***************************************************************************)
searchCmd == <<"/", "s", "e", "a", "r", "c", "h">>

botCommandEntity == [type |-> "bot_command", offset |-> 0, length |-> 7, user |-> None]

mentionEntity(off, len) == [type |-> "mention", offset |-> off, length |-> len, user |-> None]

\* an explicit mention of user 99, who has no username
textMentionEntity(off, len) ==
  [type |-> "text_mention", offset |-> off, length |-> len, user |-> Some([id |-> 99])]

atAl == <<"@", "a", "l">>

atBo == <<"@", "b", "o">>

\* text, caption, entities and the command's argument string (ctx.match)
Queries ==
  { [text |-> Some(searchCmd), caption |-> None, photo |-> None,
     entities |-> Some(<<botCommandEntity>>), match |-> <<>>],
    [text |-> Some(searchCmd \o <<" ", "q">>), caption |-> None, photo |-> None,
     entities |-> Some(<<botCommandEntity>>), match |-> <<"q">>],
    [text |-> Some(searchCmd \o <<" ">> \o atAl), caption |-> None, photo |-> None,
     entities |-> Some(<<botCommandEntity, mentionEntity(8, 3)>>), match |-> atAl],
    [text |-> Some(searchCmd \o <<" ">> \o atBo), caption |-> None, photo |-> None,
     entities |-> Some(<<botCommandEntity, mentionEntity(8, 3)>>), match |-> atBo],
    [text |-> Some(searchCmd \o <<" ">> \o atAl \o <<" ", "B", "o">>), caption |-> None,
     photo |-> None,
     entities |-> Some(<<botCommandEntity, mentionEntity(8, 3), textMentionEntity(12, 2)>>),
     match |-> atAl \o <<" ", "B", "o">>],
    [text |-> Some(searchCmd \o <<" ", "B", "o", " ">> \o atAl), caption |-> None,
     photo |-> None,
     entities |-> Some(<<botCommandEntity, textMentionEntity(8, 2), mentionEntity(11, 3)>>),
     match |-> <<"B", "o", " ">> \o atAl],
    [text |-> None, caption |-> Some(searchCmd \o <<" ">> \o atAl),
     photo |-> Some(PhotoList), entities |-> None, match |-> atAl] }

\* /search commands with a query of Q whose message has id mid
CommandCtxs(Q, mid) ==
  UNION { { [chat |-> Some(ch), msg |-> Some(Message(mid, q, q.entities)), from |-> f,
             match |-> Some(q.match), command |-> TRUE] :
              q \in Q, f \in Senders(ch) } : ch \in Chats }

\* the queries that carry no mention
PlainQueries == {q \in Queries : Has(q.entities) /\ Len(Val(q.entities)) = 1}

\* plain text messages with id mid, by which the bot learns usernames
ObservedCtxs(mid) ==
  UNION { { [chat |-> Some(ch),
             msg |-> Some(Message(mid, [text |-> Some(hiStr), caption |-> None,
                                        photo |-> None], None)),
             from |-> f, match |-> None, command |-> FALSE] :
              f \in Senders(ch) } : ch \in Chats }

\* what the search service may return
Hits ==
  { [fromName |-> <<"N", "7">>, text |-> <<"a", "@", "b", "\n", "c">>,
     chatId |-> supergroupStr \o <<"1">>, messageId |-> 1],
    [fromName |-> <<"N", "8", " ", "Z">>, text |-> hiStr,
     chatId |-> supergroupStr \o <<"1">>, messageId |-> 2] }

RECURSIVE SeqsUpTo(_, _)
SeqsUpTo(S, n) ==
  IF n = 0 THEN {<<>>}
  ELSE LET shorter == SeqsUpTo(S, n - 1)
       IN  shorter \cup {Append(q, x) : q \in shorter, x \in S}

HitLists == SeqsUpTo(Hits, MaxHits)

(***************************************************************************)
(* MentionResolver                                                         *)
(***************************************************************************)
\* entities?.find((entity) => entity.type === kind): index of the first, or 0
findEntity(ents, kind) ==
  IF ~Has(ents) \/ \A k \in 1..Len(Val(ents)) : Val(ents)[k].type # kind
    THEN 0
    ELSE CHOOSE k \in 1..Len(Val(ents)) :
           /\ Val(ents)[k].type = kind
           /\ \A j \in 1..(k - 1) : Val(ents)[j].type # kind

\* this.userMap.get(name)
userMapGet(um, name) == IF name \in DOMAIN um THEN Some(um[name]) ELSE None

\* getMentionUserId that keeps the '@' in the name it looks up
getMentionUserIdWithAt(msg, um) ==
  IF ~TruthyStr(msg.text) THEN None
  ELSE LET ents == msg.entities
           tm == findEntity(ents, "text_mention")
           m == findEntity(ents, "mention")
       IN  IF tm # 0 THEN Some(Val(Val(ents)[tm].user).id)
           ELSE IF m # 0
             THEN LET e == Val(ents)[m]
                      mentionUserString ==
                        Substring(Val(msg.text), e.offset, e.offset + e.length)
                      mentionUserId == userMapGet(um, mentionUserString)
                  IN  IF TruthyNum(mentionUserId) THEN mentionUserId ELSE None
             ELSE None

\* getMentionUserId that tries the username mention before the explicit one
getMentionUserIdMentionFirst(msg, um) ==
  IF ~TruthyStr(msg.text) THEN None
  ELSE LET ents == msg.entities
           tm == findEntity(ents, "text_mention")
           m == findEntity(ents, "mention")
           e == Val(ents)[m]
           mentionUserId ==
             userMapGet(um, Substring(Val(msg.text), e.offset + 1, e.offset + e.length))
       IN  IF m # 0 /\ TruthyNum(mentionUserId) THEN mentionUserId
           ELSE IF tm # 0 THEN Some(Val(Val(ents)[tm].user).id)
           ELSE None

getMentionUserId(msg, um) ==
  IF ~TruthyStr(msg.text) THEN None
  ELSE LET ents == msg.entities
           tm == findEntity(ents, "text_mention")
           m == findEntity(ents, "mention")
       IN  IF tm # 0 THEN Some(Val(Val(ents)[tm].user).id)
           ELSE IF m # 0
             THEN LET e == Val(ents)[m]
                      mentionUserString ==
                        Substring(Val(msg.text), e.offset + 1, e.offset + e.length)
                      mentionUserId == userMapGet(um, mentionUserString)
                  IN  IF TruthyNum(mentionUserId) THEN mentionUserId ELSE None
             ELSE None

(***************************************************************************)
(* SearchQueryRunner: botOnSearchCommand                                   *)
(***************************************************************************)
HeaderText == <<"<search results:>">>

NotFoundText == <<"<nothing found>">>

\* hit.text.replace(/\n/g, ' ').replace(/@/g, '')
RECURSIVE cleanText(_)
cleanText(t) ==
  IF t = <<>> THEN <<>>
  ELSE IF Head(t) = "\n" THEN <<" ">> \o cleanText(Tail(t))
  ELSE IF Head(t) = "@" THEN cleanText(Tail(t))
  ELSE <<Head(t)>> \o cleanText(Tail(t))

\* shownText cutting already at 30 characters (>= for >)
shownTextCutAt30(t) ==
  LET text == cleanText(t)
  IN  IF Len(text) >= 30 THEN Substring(text, 0, 30) \o <<".", ".", ".">> ELSE text

\* the text shown for a hit: cleaned, cut to 30 characters plus '...'
shownText(t) ==
  LET text == cleanText(t)
  IN  IF Len(text) > 30 THEN Substring(text, 0, 30) \o <<".", ".", ".">> ELSE text

IsLetter(c) ==
  c \in {"a", "b", "c", "d", "e", "f", "g", "h", "i", "j", "k", "l", "m", "n", "o", "p",
         "q", "r", "s", "t", "u", "v", "w", "x", "y", "z", "A", "B", "C", "D", "E", "F",
         "G", "H", "I", "J", "K", "L", "M", "N", "O", "P", "Q", "R", "S", "T", "U", "V",
         "W", "X", "Y", "Z"}

\* s.replace(/[a-zA-Z]+/, ''): the first run of letters is removed
RECURSIVE dropLetters(_)
dropLetters(s) == IF s # <<>> /\ IsLetter(Head(s)) THEN dropLetters(Tail(s)) ELSE s

RECURSIVE stripFirstLetters(_)
stripFirstLetters(s) ==
  IF s = <<>> THEN <<>>
  ELSE IF IsLetter(Head(s)) THEN dropLetters(s)
  ELSE <<Head(s)>> \o stripFirstLetters(Tail(s))

\* the reply line of one hit
formatHit(hit) ==
  <<"*">> \o hit.fromName \o <<"*", "<colon>">> \o shownText(hit.text)
    \o <<" ", "[", "<jump>", "]", "(", "https://t.me/c/">>
    \o stripFirstLetters(hit.chatId) \o <<"/">> \o NumStr(hit.messageId) \o <<")">>

\* lines.join('\n')
RECURSIVE joinLines(_)
joinLines(lines) ==
  IF lines = <<>> THEN <<>>
  ELSE IF Len(lines) = 1 THEN lines[1]
  ELSE lines[1] \o <<"\n">> \o joinLines(Tail(lines))

\* formatReply that sends the lines without the header
formatReplyNoHeader(hits, message_id) ==
  LET formattedMessage == joinLines([k \in 1..Len(hits) |-> formatHit(hits[k])])
  IN  IF formattedMessage # <<>>
        THEN [text |-> formattedMessage,
              parse_mode |-> Some("Markdown"), reply_to_message_id |-> message_id]
        ELSE [text |-> NotFoundText, parse_mode |-> None,
              reply_to_message_id |-> message_id]

\* formatReply that replies to the message of the first hit
formatReplyToHit(hits, message_id) ==
  LET formattedMessage == joinLines([k \in 1..Len(hits) |-> formatHit(hits[k])])
  IN  IF formattedMessage # <<>>
        THEN [text |-> HeaderText \o <<"\n">> \o formattedMessage,
              parse_mode |-> Some("Markdown"), reply_to_message_id |-> hits[1].messageId]
        ELSE [text |-> NotFoundText, parse_mode |-> None,
              reply_to_message_id |-> message_id]

\* the reply text and options for the hits of a search
formatReply(hits, message_id) ==
  LET formattedMessage == joinLines([k \in 1..Len(hits) |-> formatHit(hits[k])])
  IN  IF formattedMessage # <<>>
        THEN [text |-> HeaderText \o <<"\n">> \o formattedMessage,
              parse_mode |-> Some("Markdown"), reply_to_message_id |-> message_id]
        ELSE [text |-> NotFoundText, parse_mode |-> None,
              reply_to_message_id |-> message_id]

\* isPrivate that never recognises a private chat
isPrivateNever(chat) == FALSE

\* chat.type === 'private'
isPrivate(chat) == chat.type = privateStr

\* ignored without the test of match
ignoredNoMatchCheck(c) == ~Has(c.chat) \/ ~Has(c.msg) \/ ~Has(c.from)

\* the guard of botOnSearchCommand: a context it returns from at once
ignored(c) == ~Has(c.chat) \/ ~Has(c.msg) \/ ~Has(c.from) \/ ~TruthyStr(c.match)

\* the arguments of this.search.search for a chat, sender and resolved mention
searchArgs(match, chat, from, mentionUserId) ==
  IF isPrivate(chat)
    THEN [query |-> match, chatId |-> None, fromId |-> Some(userStr \o NumStr(from.id))]
    ELSE IF ~TruthyNum(mentionUserId)
      THEN [query |-> match, chatId |-> Some(chatId(chat)), fromId |-> None]
      ELSE [query |-> match, chatId |-> Some(chatId(chat)),
            fromId |-> Some(userStr \o NumStr(Val(mentionUserId)))]

\* within the search scenarios the platform numbers the messages as they arrive
DeliverCommand == \E c \in CommandCtxs(Queries, Len(runs) + 1) : Deliver(c)

DeliverPlainCommand == \E c \in CommandCtxs(PlainQueries, Len(runs) + 1) : Deliver(c)

DeliverObserved == \E c \in ObservedCtxs(Len(runs) + 1) : Deliver(c)

\* botOnSearchCommand, run by next(): the guard, then either the search call
\* of a private chat or getMentionUserId (awaited)
botOnSearchCommand(i) ==
  LET c == runs[i].ctx IN
  /\ runs[i].pc = "next"
  /\ c.command
  /\ IF ignored(c)
       THEN /\ runs' = setPc(i, "resume")
            /\ UNCHANGED searched
       ELSE IF isPrivate(Val(c.chat))
         THEN /\ searched' = Append(searched,
                     [run |-> i,
                      args |-> searchArgs(Val(c.match), Val(c.chat), Val(c.from), None)])
              /\ runs' = setPc(i, "search")
         ELSE /\ runs' = [runs EXCEPT ![i].pc = "mention",
                                      ![i].mention = getMentionUserId(Val(c.msg), userMap)]
              /\ UNCHANGED searched
  /\ UNCHANGED <<userMap, queued, fetched, imaged, replied, probe>>

\* getMentionUserId resolved: the search call of a non-private chat
searchInChat(i) ==
  LET c == runs[i].ctx IN
  /\ runs[i].pc = "mention"
  /\ searched' = Append(searched,
         [run |-> i,
          args |-> searchArgs(Val(c.match), Val(c.chat), Val(c.from), runs[i].mention)])
  /\ runs' = setPc(i, "search")
  /\ UNCHANGED <<userMap, queued, fetched, imaged, replied, probe>>

\* the search resolved with hits: the reply is formatted and sent
SearchOk(i, hits) ==
  /\ ~microtaskPending
  /\ runs[i].pc = "search"
  /\ replied' = Append(replied,
         [run |-> i, reply |-> formatReply(hits, Val(runs[i].ctx.msg).message_id)])
  /\ runs' = [runs EXCEPT ![i].pc = "reply", ![i].hits = Some(hits)]
  /\ UNCHANGED <<userMap, queued, fetched, imaged, searched, probe>>

SearchFail(i) == Reject(i, "search")

\* ctx.reply resolved: botOnSearchCommand returns and next() resolves
ReplyOk(i) ==
  /\ ~microtaskPending
  /\ runs[i].pc = "reply"
  /\ runs' = setPc(i, "resume")
  /\ UNCHANGED <<userMap, queued, fetched, imaged, searched, replied, probe>>

ReplyFail(i) == Reject(i, "reply")

(***************************************************************************)
(* The bot: userMap is empty after construction and no update has arrived. *)
(***************************************************************************)
NoProbe == [pc |-> "none"]

Init ==
  /\ userMap = <<>>
  /\ runs = <<>>
  /\ queued = <<>>
  /\ fetched = <<>>
  /\ imaged = <<>>
  /\ searched = <<>>
  /\ replied = <<>>
  /\ probe = NoProbe

\* The message pipeline: message updates of every chat kind and content.
Next ==
  \/ DeliverMessage
  \/ \E i \in 1..Len(runs) :
       \/ botOnMessage(i)
       \/ QueueOk(i)
       \/ QueueFail(i)
       \/ FetchOk(i)
       \/ FetchFail(i)
       \/ ImageOk(i)
       \/ ImageFail(i)

Spec == Init /\ [][Next]_vars

\* Search scoping: /search commands of every shape, and plain messages that
\* fill userMap; the search service finds nothing.
NextSearch ==
  \/ DeliverCommand
  \/ DeliverObserved
  \/ \E i \in 1..Len(runs) :
       \/ botOnSearchCommand(i)
       \/ searchInChat(i)
       \/ SearchOk(i, <<>>)
       \/ SearchFail(i)
       \/ ReplyOk(i)
       \/ ReplyFail(i)
       \/ botOnMessage(i)
       \/ QueueOk(i)
       \/ QueueFail(i)

SpecSearch == Init /\ [][NextSearch]_vars

\* Search replies: /search commands without mentions; the search service
\* returns any list of up to MaxHits hits.
NextReply ==
  \/ DeliverPlainCommand
  \/ \E i \in 1..Len(runs) :
       \/ botOnSearchCommand(i)
       \/ searchInChat(i)
       \/ \E hits \in HitLists : SearchOk(i, hits)
       \/ SearchFail(i)
       \/ ReplyOk(i)
       \/ ReplyFail(i)
       \/ botOnMessage(i)

SpecReply == Init /\ [][NextReply]_vars

\* The steps of handler run i that the event loop and the search service owe:
\* queued microtasks are run, and a search call returns or fails.
searchStep(i) ==
  /\ i <= Len(runs)
  /\ \/ botOnSearchCommand(i)
     \/ searchInChat(i)
     \/ \E hits \in HitLists : SearchOk(i, hits)
     \/ SearchFail(i)
     \/ botOnMessage(i)

SpecReplyFair == SpecReply /\ \A i \in 1..MaxEvents : WF_vars(searchStep(i))

(***************************************************************************)
(* ChatIdentity on its own: a chat of any kind is given its stable id as   *)
(* the handlers build it, and checkIfUserIsMember converts that id back.   *)
(***************************************************************************)
MaxChatNum == 30

\* the platform's wire ids: -100<n> for supergroups and channels, -<n> for
\* basic groups, <n> for private chats
minus100(n) == JSNumber(<<"-", "1", "0", "0">> \o NatStr(n)).val

ProbeChats ==
  { [type |-> t, id |-> minus100(n)] : t \in {supergroupStr, channelStr}, n \in 1..MaxChatNum }
  \cup { [type |-> groupStr, id |-> 0 - n] : n \in 1..MaxChatNum }
  \cup { [type |-> groupStr, id |-> minus100(n)] : n \in 1..MaxChatNum }
  \cup { [type |-> privateStr, id |-> n] : n \in 1..MaxChatNum }

InitChatId ==
  /\ userMap = <<>>
  /\ runs = <<>>
  /\ queued = <<>>
  /\ fetched = <<>>
  /\ imaged = <<>>
  /\ searched = <<>>
  /\ replied = <<>>
  /\ probe \in { [pc |-> "chat", chat |-> ch, chatId |-> <<>>, id |-> NaN] : ch \in ProbeChats }

\* lines 121-122 (and 181-182): the stable id of the chat
buildChatId ==
  /\ probe.pc = "chat"
  /\ probe' = [probe EXCEPT !.pc = "chatId", !.chatId = chatId(probe.chat)]
  /\ UNCHANGED <<userMap, runs, queued, fetched, imaged, searched, replied>>

\* const id = this.chatId2ApiId(chatId), the id passed to getChatMember
checkIfUserIsMember ==
  /\ probe.pc = "chatId"
  /\ probe' = [probe EXCEPT !.pc = "id", !.id = chatId2ApiId(probe.chatId)]
  /\ UNCHANGED <<userMap, runs, queued, fetched, imaged, searched, replied>>

NextChatId == buildChatId \/ checkIfUserIsMember

SpecChatId == InitChatId /\ [][NextChatId]_vars

(***************************************************************************)
(* Hit formatting on its own: hit texts of up to MaxTextLen characters     *)
(* with newlines and '@' at chosen places.                                 *)
(***************************************************************************)
MaxTextLen == 36

Letter(i) == <<"a", "b", "c", "d", "e", "f", "g", "h", "i", "j">>[(i % 10) + 1]

\* a text of n characters with character ca at place a and cb at place b
ProbeText(n, a, ca, b, cb) ==
  [i \in 1..n |-> IF i = a THEN ca ELSE IF i = b THEN cb ELSE Letter(i)]

ProbeTexts ==
  { ProbeText(n, a, ca, b, cb) :
      n \in {0, 1} \cup ((MaxTextLen - 7)..MaxTextLen),
      a \in {0, 1, 30, 31, 35}, b \in {0, 2, 29, 33},
      ca \in {"\n", "@"}, cb \in {"\n", "@"} }

InitFormat ==
  /\ userMap = <<>>
  /\ runs = <<>>
  /\ queued = <<>>
  /\ fetched = <<>>
  /\ imaged = <<>>
  /\ searched = <<>>
  /\ replied = <<>>
  /\ probe \in { [pc |-> "hit",
                  hit |-> [fromName |-> <<"N", "7">>, text |-> t,
                           chatId |-> supergroupStr \o <<"1">>, messageId |-> 1],
                  shown |-> <<>>, line |-> <<>>] : t \in ProbeTexts }

\* the body of hits.map(...) for one hit
formatOneHit ==
  /\ probe.pc = "hit"
  /\ probe' = [probe EXCEPT !.pc = "line", !.shown = shownText(probe.hit.text),
                            !.line = formatHit(probe.hit)]
  /\ UNCHANGED <<userMap, runs, queued, fetched, imaged, searched, replied>>

NextFormat == formatOneHit

SpecFormat == InitFormat /\ [][NextFormat]_vars

(***************************************************************************)
(* ProfilePhotoFetcher: getProfilePhoto, tryGetPhotos, getSmallestPhoto,   *)
(* fetchFile, on their own.                                                *)
(***************************************************************************)
userNotFoundStr ==
  <<"u", "s", "e", "r", " ", "n", "o", "t", " ", "f", "o", "u",
    "n", "d">>

\* messages of the errors getUserProfilePhotos rejects with
LookupErrors ==
  { <<"B", "a", "d", " ", "R", "e", "q", "u", "e", "s", "t", ":", " ">> \o userNotFoundStr,
    userNotFoundStr,
    <<"U", "s", "e", "r", " ", "n", "o", "t", " ", "f", "o", "u",
      "n", "d">>,
    <<"F", "o", "r", "b", "i", "d", "d", "e", "n", ":", " ", "b",
      "o", "t", " ", "w", "a", "s", " ", "b", "l", "o", "c", "k",
      "e", "d", " ", "b", "y", " ", "t", "h", "e", " ", "u", "s",
      "e", "r">> }

\* s.includes(sub)
includes(s, sub) ==
  \E k \in 1..(Len(s) - Len(sub) + 1) : SubSeq(s, k, k + Len(sub) - 1) = sub

\* the catch of tryGetPhotos answering { photos: [] } to every error
swallowedAlways(message) == TRUE

\* the catch of tryGetPhotos: e.message.includes('user not found')
swallowed(message) == includes(message, userNotFoundStr)

\* photos.sort((a, b) => a.width - b.width): stable, ascending by width
RECURSIVE insertAsc(_, _)
insertAsc(sorted, p) ==
  IF sorted = <<>> THEN <<p>>
  ELSE IF sorted[Len(sorted)].width <= p.width THEN Append(sorted, p)
  ELSE Append(insertAsc(SubSeq(sorted, 1, Len(sorted) - 1), p), sorted[Len(sorted)])

RECURSIVE sortAsc(_)
sortAsc(photos) ==
  IF photos = <<>> THEN <<>>
  ELSE insertAsc(sortAsc(SubSeq(photos, 1, Len(photos) - 1)), photos[Len(photos)])

\* getSmallestPhoto: the array is sorted in place and its first element returned
getSmallestPhoto(photos) == sortAsc(photos)[1]

\* the sizes of one profile photo, in any order the platform may list them
SizeLists ==
  { q \in SeqsUpTo({PhotoList[k] : k \in 1..Len(PhotoList)}, Len(PhotoList)) :
      \A a, b \in 1..Len(q) : a # b => q[a] # q[b] }

\* the photos of a getUserProfilePhotos answer with limit 1
ProfilePhotos == {<<>>} \cup { <<q>> : q \in SizeLists }

InitProfile ==
  /\ userMap = <<>>
  /\ runs = <<>>
  /\ queued = <<>>
  /\ fetched = <<>>
  /\ imaged = <<>>
  /\ searched = <<>>
  /\ replied = <<>>
  /\ probe \in { [pc |-> "call", userId |-> u, lookups |-> <<>>, answer |-> None,
                  photos |-> <<>>, files |-> <<>>, urls |-> <<>>, result |-> None,
                  error |-> None] : u \in UserIds }

\* getProfilePhoto(userId) up to the call of getUserProfilePhotos in tryGetPhotos
getProfilePhoto ==
  /\ probe.pc = "call"
  /\ probe' = [probe EXCEPT !.pc = "lookup",
                            !.lookups = Append(@, [userId |-> probe.userId, limit |-> 1])]
  /\ UNCHANGED <<userMap, runs, queued, fetched, imaged, searched, replied>>

\* getProfilePhoto once tryGetPhotos has returned photos: null, or the smallest
\* size of the first photo is picked (sorting its sizes) and getFile is called
withPhotos(p, photos) ==
  IF Len(photos) < 1 \/ Len(photos[1]) < 1
    THEN [p EXCEPT !.pc = "returned", !.photos = photos, !.result = Some("null")]
    ELSE [p EXCEPT !.pc = "getFile",
                   !.photos = [photos EXCEPT ![1] = sortAsc(photos[1])],
                   !.files = Append(@, getSmallestPhoto(photos[1]).file_id)]

\* getUserProfilePhotos resolved
LookupOk(photos) ==
  /\ probe.pc = "lookup"
  /\ probe' = withPhotos([probe EXCEPT !.answer = Some([ok |-> TRUE, photos |-> photos])],
                         photos)
  /\ UNCHANGED <<userMap, runs, queued, fetched, imaged, searched, replied>>

\* getUserProfilePhotos rejected: the catch of tryGetPhotos
LookupFail(message) ==
  /\ probe.pc = "lookup"
  /\ LET p == [probe EXCEPT !.answer = Some([ok |-> FALSE, message |-> message])]
     IN  probe' = IF swallowed(message)
                    THEN withPhotos(p, <<>>)
                    ELSE [p EXCEPT !.pc = "raised", !.error = Some(message)]
  /\ UNCHANGED <<userMap, runs, queued, fetched, imaged, searched, replied>>

\* fetchFile: getFile resolved, the file is requested from its URL
GetFileOk ==
  /\ probe.pc = "getFile"
  /\ probe' = [probe EXCEPT !.pc = "fetch", !.urls = Append(@, probe.files[Len(probe.files)])]
  /\ UNCHANGED <<userMap, runs, queued, fetched, imaged, searched, replied>>

GetFileFail ==
  /\ probe.pc = "getFile"
  /\ probe' = [probe EXCEPT !.pc = "raised", !.error = Some(<<"g", "e", "t", "F", "i", "l", "e">>)]
  /\ UNCHANGED <<userMap, runs, queued, fetched, imaged, searched, replied>>

\* the request resolved: getProfilePhoto returns the response
FetchFileOk ==
  /\ probe.pc = "fetch"
  /\ probe' = [probe EXCEPT !.pc = "returned", !.result = Some("res")]
  /\ UNCHANGED <<userMap, runs, queued, fetched, imaged, searched, replied>>

FetchFileFail ==
  /\ probe.pc = "fetch"
  /\ probe' = [probe EXCEPT !.pc = "raised", !.error = Some(<<"f", "e", "t", "c", "h">>)]
  /\ UNCHANGED <<userMap, runs, queued, fetched, imaged, searched, replied>>

NextProfile ==
  \/ getProfilePhoto
  \/ \E photos \in ProfilePhotos : LookupOk(photos)
  \/ \E message \in LookupErrors : LookupFail(message)
  \/ GetFileOk
  \/ GetFileFail
  \/ FetchFileOk
  \/ FetchFileFail

SpecProfile == InitProfile /\ [][NextProfile]_vars

(***************************************************************************)
(* New messages and their edits: botCfg.followEdit decides at construction *)
(* whether botOnMessage is registered for edit updates as well.            *)
(***************************************************************************)
yoStr == <<"y", "o">>

\* two supergroups and two message ids whose digits run into each other
EditChats ==
  { [type |-> supergroupStr, id |-> 0 - 1001], [type |-> supergroupStr, id |-> 0 - 10011] }

EditMsgIds == {1, 11}

\* message and edited_message updates with a text; ctx.msg is the message of
\* either kind
EditCtxs(kind) ==
  { [chat |-> Some(ch),
     msg |-> Some(Message(mid, [text |-> Some(t), caption |-> None, photo |-> None], None)),
     from |-> Some(u), match |-> None, command |-> FALSE, update |-> kind] :
       ch \in EditChats, mid \in EditMsgIds, t \in {hiStr, yoStr}, u \in Users }

InitEdit ==
  /\ userMap = <<>>
  /\ runs = <<>>
  /\ queued = <<>>
  /\ fetched = <<>>
  /\ imaged = <<>>
  /\ searched = <<>>
  /\ replied = <<>>
  /\ probe \in { [pc |-> "config", followEdit |-> b] : b \in BOOLEAN }

\* bot.on('msg', this.botOnMessage)
DeliverNew == \E c \in EditCtxs("message") : Deliver(c)

\* if (botCfg.followEdit) bot.on('edit', this.botOnMessage): without it no
\* handler matches an edit update
DeliverEdited ==
  \E c \in EditCtxs("edited_message") :
    IF probe.followEdit
      THEN Deliver(c)
      ELSE /\ ~microtaskPending
           /\ Len(runs) < MaxEvents
           /\ runs' = Append(runs, [pc |-> "unhandled", ctx |-> c, mention |-> None,
                                    hits |-> None])
           /\ UNCHANGED <<userMap, queued, fetched, imaged, searched, replied, probe>>

NextEdit ==
  \/ DeliverNew
  \/ DeliverEdited
  \/ \E i \in 1..Len(runs) :
       \/ botOnMessage(i)
       \/ QueueOk(i)
       \/ QueueFail(i)

SpecEdit == InitEdit /\ [][NextEdit]_vars

(***************************************************************************)
(* Properties                                                              *)
(***************************************************************************)
Dots == <<".", ".", ".">>

Contains(s, c) == \E k \in 1..Len(s) : s[k] = c

\* C1: for every chat of kind supergroup or group with wire id w, the stable
\* id built by the handlers, passed through chatId2ApiId, is w again.
C1_RoundTrip ==
  (probe.pc = "id" /\ probe.chat.type \in {supergroupStr, groupStr})
    => probe.id = Num(probe.chat.id)

\* C9 as stated: a hit text of 35 characters without a newline is shown as
\* its first 30 characters followed by '...'.
C9_NoNewline35 ==
  (probe.pc = "line" /\ Len(probe.hit.text) = 35 /\ ~Contains(probe.hit.text, "\n"))
    => probe.shown = SubSeq(probe.hit.text, 1, 30) \o Dots

NotAt(c) == c # "@"

\* the hit text with every '@' removed and every newline turned into a space
Cleaned(t) ==
  LET noAt == SelectSeq(t, NotAt)
  IN  [k \in 1..Len(noAt) |-> IF noAt[k] = "\n" THEN " " ELSE noAt[k]]

\* C9 amended: a hit text of 35 characters with neither a newline nor an '@'
\* is shown as its first 30 characters followed by '...' (33 characters); in
\* general the shown text is the cleaned text, cut to its first 30 characters
\* plus '...' exactly when the cleaned text is longer than 30 characters.
C9_ShownText ==
  probe.pc = "line" =>
    LET t == probe.hit.text
        c == Cleaned(t)
    IN  /\ (Len(t) = 35 /\ ~Contains(t, "\n") /\ ~Contains(t, "@"))
             => (probe.shown = SubSeq(t, 1, 30) \o Dots /\ Len(probe.shown) = 33)
        /\ Len(c) > 30 => probe.shown = SubSeq(c, 1, 30) \o Dots
        /\ Len(c) <= 30 => probe.shown = c

\* a 35-character hit text without newline or '@' has been formatted
C9_Witness ==
  /\ probe.pc = "line"
  /\ Len(probe.hit.text) = 35
  /\ ~Contains(probe.hit.text, "\n")
  /\ ~Contains(probe.hit.text, "@")
  /\ Len(probe.shown) = 33

\* the places of log at which handler run i made its call
CallsOf(log, i) == {k \in 1..Len(log) : log[k].run = i}

\* the payload of a message: text, else caption; <<>> when there is neither
Payload(msg) ==
  IF Has(msg.text) /\ Val(msg.text) # <<>> THEN Val(msg.text)
  ELSE IF Has(msg.caption) THEN Val(msg.caption) ELSE <<>>

IsCommandText(s) == s # <<>> /\ s[1] = "/"

\* the wire id of chat without its '-100' prefix, as a string
WithoutMinus100(chat) ==
  LET w == NumStr(chat.id)
  IN  IF Len(w) >= 4 /\ SubSeq(w, 1, 4) = <<"-", "1", "0", "0">>
        THEN SubSeq(w, 5, Len(w)) ELSE w

\* C2: every message in a supergroup chat whose payload is non-empty and does
\* not start with '/' makes its handler call queueMessage exactly once, with
\* a record whose id is 'supergroup' + (wire id without '-100') + '__' +
\* message id.
C2_OneRecord ==
  \A i \in 1..Len(runs) :
    LET c == runs[i].ctx
        msg == Val(c.msg)
    IN  (/\ Val(c.chat).type = supergroupStr
         /\ Payload(msg) # <<>>
         /\ ~IsCommandText(Payload(msg)))
          => /\ Cardinality(CallsOf(queued, i)) = IF runs[i].pc = "next" THEN 0 ELSE 1
             /\ \A k \in CallsOf(queued, i) :
                  queued[k].rec.id =
                    supergroupStr \o WithoutMinus100(Val(c.chat)) \o <<"_", "_">>
                      \o NumStr(msg.message_id)

\* a captioned photo in a supergroup has been handled to the end and its one
\* record is queued
C2_Witness ==
  \E i \in 1..Len(runs) :
    /\ Val(runs[i].ctx.chat).type = supergroupStr
    /\ Val(runs[i].ctx.msg).caption = Some(hiStr)
    /\ runs[i].pc = "done"
    /\ Cardinality(CallsOf(queued, i)) = 1

\* C3: a message in a chat that is no supergroup (private, group, channel)
\* never causes a queueMessage call, a file fetch or an indexImage call, and
\* every queued or imaged record bears a supergroup chat id.
C3_SupergroupOnly ==
  /\ \A i \in 1..Len(runs) :
       Val(runs[i].ctx.chat).type # supergroupStr
         => /\ CallsOf(queued, i) = {}
            /\ CallsOf(fetched, i) = {}
            /\ CallsOf(imaged, i) = {}
  /\ \A k \in 1..Len(queued) : SubSeq(queued[k].rec.chatId, 1, 10) = supergroupStr
  /\ \A k \in 1..Len(imaged) : SubSeq(imaged[k].rec.chatId, 1, 10) = supergroupStr

\* a captioned photo in a private chat and one in a basic group have been
\* handled to the end
C3_Witness ==
  \E i, j \in 1..Len(runs) :
    /\ Val(runs[i].ctx.chat).type = privateStr
    /\ Val(runs[j].ctx.chat).type = groupStr
    /\ \A r \in {i, j} :
         /\ Val(runs[r].ctx.msg).caption = Some(hiStr)
         /\ Has(Val(runs[r].ctx.msg).photo)
         /\ runs[r].pc = "done"

\* C4: a supergroup message without text and caption, or whose payload starts
\* with '/', causes no queueMessage call, no file fetch and no indexImage
\* call, also when it carries photos.
C4_SkippedEntirely ==
  \A i \in 1..Len(runs) :
    LET c == runs[i].ctx
        msg == Val(c.msg)
    IN  (/\ Val(c.chat).type = supergroupStr
         /\ (Payload(msg) = <<>> \/ IsCommandText(Payload(msg))))
          => /\ CallsOf(queued, i) = {}
             /\ CallsOf(fetched, i) = {}
             /\ CallsOf(imaged, i) = {}

\* a bare photo and a photo captioned '/x', both in a supergroup, have been
\* handled to the end
C4_Witness ==
  \E i, j \in 1..Len(runs) :
    /\ Payload(Val(runs[i].ctx.msg)) = <<>>
    /\ Payload(Val(runs[j].ctx.msg)) = slashStr
    /\ \A r \in {i, j} :
         /\ Val(runs[r].ctx.chat).type = supergroupStr
         /\ Has(Val(runs[r].ctx.msg).photo)
         /\ runs[r].pc = "done"

HasEntity(msg, kind) ==
  Has(msg.entities) /\ \E k \in 1..Len(Val(msg.entities)) : Val(msg.entities)[k].type = kind

FirstEntity(msg, kind) ==
  LET ents == Val(msg.entities)
  IN  ents[CHOOSE k \in 1..Len(ents) :
             ents[k].type = kind /\ \A j \in 1..(k - 1) : ents[j].type # kind]

\* the username a mention entity spans, without its '@'
NamedBy(msg, e) == [j \in 1..(e.length - 1) |-> Val(msg.text)[e.offset + 1 + j]]

UserFilter(id) == Some(<<"u", "s", "e", "r">> \o NumStr(id))

\* C5: a search command in a private chat calls the search service exactly
\* once, with no chat filter and with user filter 'user' + sender id,
\* whatever entities the message has and whatever userMap holds.
C5_PrivateScope ==
  \A i \in 1..Len(runs) :
    LET c == runs[i].ctx IN
    (c.command /\ Val(c.chat).type = privateStr /\ Val(c.match) # <<>>)
      => /\ Cardinality(CallsOf(searched, i)) = IF runs[i].pc = "next" THEN 0 ELSE 1
         /\ \A k \in CallsOf(searched, i) :
              /\ searched[k].args.query = Val(c.match)
              /\ searched[k].args.chatId = None
              /\ searched[k].args.fromId = UserFilter(Val(c.from).id)

\* a private-chat command that mentions @al has made its search call while
\* userMap maps al to another user than the sender
C5_Witness ==
  \E k \in 1..Len(searched) :
    LET c == runs[searched[k].run].ctx IN
    /\ Val(c.chat).type = privateStr
    /\ HasEntity(Val(c.msg), "mention")
    /\ alStr \in DOMAIN userMap
    /\ userMap[alStr] # Val(c.from).id

\* what mention resolution is to yield for msg when the directory is um
Resolved(msg, um) ==
  IF HasEntity(msg, "text_mention")
    THEN Some(Val(FirstEntity(msg, "text_mention").user).id)
  ELSE IF HasEntity(msg, "mention")
          /\ NamedBy(msg, FirstEntity(msg, "mention")) \in DOMAIN um
    THEN Some(um[NamedBy(msg, FirstEntity(msg, "mention"))])
  ELSE None

NonPrivateCommand(c) ==
  c.command /\ Has(c.from) /\ Val(c.chat).type # privateStr /\ Val(c.match) # <<>>

\* C6: a search command in a non-private chat resolves its mention against
\* the directory as it is when the command is handled; its one search call
\* has the chat's stable id as chat filter and the user filter 'user' + id if
\* and only if the mention resolved to id (no mention, or a username the
\* directory does not hold: chat filter only); resolving raises no error.
C6_ChatScope ==
  /\ [][\A i \in 1..Len(runs) :
          (NonPrivateCommand(runs[i].ctx) /\ runs[i].pc = "next")
            => /\ runs'[i].pc \in {"next", "mention"}
               /\ runs'[i].pc = "mention"
                    => runs'[i].mention = Resolved(Val(runs[i].ctx.msg), userMap)]_vars
  /\ [](\A i \in 1..Len(runs) :
          LET c == runs[i].ctx IN
          NonPrivateCommand(c)
            => /\ Cardinality(CallsOf(searched, i)) =
                    IF runs[i].pc \in {"next", "mention"} THEN 0 ELSE 1
               /\ \A k \in CallsOf(searched, i) :
                    /\ searched[k].args.query = Val(c.match)
                    /\ searched[k].args.chatId =
                         Some(Val(c.chat).type \o WithoutMinus100(Val(c.chat)))
                    /\ searched[k].args.fromId =
                         IF Has(runs[i].mention) THEN UserFilter(Val(runs[i].mention))
                         ELSE None)

\* two searches in non-private chats have been called: one whose @al was
\* resolved through the directory, one whose @bo is unknown to it
C6_Witness ==
  \E k, l \in 1..Len(searched) :
    LET c == runs[searched[k].run].ctx
        d == runs[searched[l].run].ctx
    IN  /\ Val(c.chat).type # privateStr
        /\ Val(d.chat).type # privateStr
        /\ c.match = Some(atAl)
        /\ Has(Val(c.msg).text)
        /\ searched[k].args.fromId = UserFilter(8)
        /\ d.match = Some(atBo)
        /\ searched[l].args.fromId = None

\* C7: when the message of a non-private search command has an explicit
\* mention (text_mention) entity, mention resolution yields that entity's
\* user id, whether or not a username mention stands before or after it and
\* whatever the directory holds for that username.
C7_ExplicitMentionWins ==
  \A i \in 1..Len(runs) :
    LET c == runs[i].ctx IN
    (NonPrivateCommand(c) /\ HasEntity(Val(c.msg), "text_mention") /\ runs[i].pc # "next")
      => /\ runs[i].mention = Some(Val(FirstEntity(Val(c.msg), "text_mention").user).id)
         /\ \A k \in CallsOf(searched, i) :
              searched[k].args.fromId =
                UserFilter(Val(FirstEntity(Val(c.msg), "text_mention").user).id)

\* a command whose @al stands before its explicit mention has made its search
\* call while the directory holds al
C7_Witness ==
  \E k \in 1..Len(searched) :
    LET msg == Val(runs[searched[k].run].ctx.msg) IN
    /\ HasEntity(msg, "text_mention")
    /\ HasEntity(msg, "mention")
    /\ FirstEntity(msg, "mention").offset < FirstEntity(msg, "text_mention").offset
    /\ searched[k].run = 2
    /\ runs[1].pc = "done"
    /\ alStr \in DOMAIN userMap
    /\ searched[k].args.fromId = UserFilter(99)

\* C10: a search command whose query is empty, or whose chat, message or
\* sender is missing, makes no search call, sends no reply and raises no
\* error.
C10_Ignored ==
  \A i \in 1..Len(runs) :
    LET c == runs[i].ctx IN
    (c.command /\ (~Has(c.chat) \/ ~Has(c.msg) \/ ~Has(c.from) \/ Val(c.match) = <<>>))
      => /\ CallsOf(searched, i) = {}
         /\ CallsOf(replied, i) = {}
         /\ runs[i].pc # "raised"

\* a command without a query and a command without a sender have been
\* handled to the end
C10_Witness ==
  \E i, j \in 1..Len(runs) :
    /\ runs[i].ctx.command
    /\ runs[i].ctx.match = Some(<<>>)
    /\ Has(runs[i].ctx.from)
    /\ runs[i].pc = "done"
    /\ runs[j].ctx.command
    /\ runs[j].ctx.match # Some(<<>>)
    /\ ~Has(runs[j].ctx.from)
    /\ runs[j].pc = "done"

RECURSIVE LinesMatch(_, _)
\* rest is the lines of hits, in their order, separated by newlines
LinesMatch(rest, hits) ==
  IF Len(hits) = 1 THEN rest = formatHit(hits[1])
  ELSE LET first == formatHit(hits[1]) \o <<"\n">>
       IN  /\ Len(rest) >= Len(first)
           /\ SubSeq(rest, 1, Len(first)) = first
           /\ LinesMatch(SubSeq(rest, Len(first) + 1, Len(rest)), Tail(hits))

\* C8: the reply to a search with zero hits is exactly the not-found text;
\* the reply to a search with hits is the header line followed by one
\* formatted line per hit, in the order of the hits.
C8_ReplyShape ==
  \A i \in 1..Len(runs) :
    /\ Cardinality(CallsOf(replied, i)) = IF Has(runs[i].hits) THEN 1 ELSE 0
    /\ \A k \in CallsOf(replied, i) :
         LET hits == Val(runs[i].hits)
             text == replied[k].reply.text
         IN  /\ hits = <<>> => text = NotFoundText
             /\ hits # <<>> =>
                  /\ Len(text) > 2
                  /\ SubSeq(text, 1, 2) = <<HeaderText[1], "\n">>
                  /\ LinesMatch(SubSeq(text, 3, Len(text)), hits)

\* a search that returned two different hits and a search that returned none
\* have been answered
C8_Witness ==
  \E k, l \in 1..Len(replied) :
    /\ Len(Val(runs[replied[k].run].hits)) = 2
    /\ Val(runs[replied[k].run].hits)[1] # Val(runs[replied[k].run].hits)[2]
    /\ Val(runs[replied[l].run].hits) = <<>>
    /\ replied[l].reply.text = NotFoundText

\* an update without chat, message or sender
Incomplete(c) == c.chat = None \/ c.msg = None \/ c.from = None

\* C11: a message update that lacks a chat, a message or a sender is dropped
\* without error: its handler ends normally in one step that leaves userMap
\* and every call log as they were, and it never calls queueMessage, fetches
\* a file or calls indexImage.
C11_DroppedSilently ==
  /\ [](\A i \in 1..Len(runs) :
          Incomplete(runs[i].ctx)
            => /\ runs[i].pc \in {"next", "done"}
               /\ CallsOf(queued, i) = {}
               /\ CallsOf(fetched, i) = {}
               /\ CallsOf(imaged, i) = {})
  /\ [][\A i \in 1..Len(runs) :
          (Incomplete(runs[i].ctx) /\ runs'[i].pc # runs[i].pc)
            => /\ runs'[i].pc = "done"
               /\ userMap' = userMap
               /\ <<queued, fetched, imaged, searched, replied>>' =
                    <<queued, fetched, imaged, searched, replied>>]_vars

\* a channel post (no sender) with caption and photos has been handled to the
\* end, after a message of a named sender had filled userMap
C11_Witness ==
  \E i, j \in 1..Len(runs) :
    /\ j < i
    /\ runs[i].ctx.from = None
    /\ Val(runs[i].ctx.msg).caption = Some(hiStr)
    /\ Has(Val(runs[i].ctx.msg).photo)
    /\ runs[i].pc = "done"
    /\ runs[j].pc = "done"
    /\ DOMAIN userMap = {alStr}

\* the lookup found no photo: it answered without photos or without sizes of
\* the first photo, or failed with a message containing 'user not found'
NoPhotoFound(answer) ==
  IF answer.ok
    THEN answer.photos = <<>> \/ answer.photos[1] = <<>>
    ELSE \E k \in 1..Len(answer.message) :
           /\ k + 13 <= Len(answer.message)
           /\ [j \in 1..14 |-> answer.message[k + j - 1]] = userNotFoundStr

\* C12: getProfilePhoto returns null, without asking for a file, requesting a
\* URL or raising, when the lookup fails with a message containing 'user not
\* found' or finds no photo; any other lookup failure is raised to the caller
\* as it is, again without a file request; the lookup is called exactly once
\* (for the given user, with limit 1) and never again.
C12_NullOrPropagate ==
  /\ probe.pc = "call" => probe.lookups = <<>>
  /\ probe.pc # "call" => probe.lookups = <<[userId |-> probe.userId, limit |-> 1]>>
  /\ Has(probe.answer) =>
       IF NoPhotoFound(Val(probe.answer))
         THEN /\ probe.pc = "returned"
              /\ probe.result = Some("null")
              /\ probe.error = None
              /\ probe.files = <<>>
              /\ probe.urls = <<>>
         ELSE IF ~Val(probe.answer).ok
           THEN /\ probe.pc = "raised"
                /\ probe.error = Some(Val(probe.answer).message)
                /\ probe.result = None
                /\ probe.files = <<>>
                /\ probe.urls = <<>>
           ELSE probe.result # Some("null")

\* the lookup failed with 'Bad Request: user not found' and getProfilePhoto has
\* returned null
C12_Witness ==
  /\ probe.pc = "returned"
  /\ Has(probe.answer)
  /\ ~Val(probe.answer).ok
  /\ Len(Val(probe.answer).message) > Len(userNotFoundStr)
  /\ probe.result = Some("null")
  /\ Len(probe.lookups) = 1

\* the handler runs, in arrival order, that have passed the directory write
\* point with a sender named n
HandledAs(n) ==
  { i \in 1..Len(runs) :
      /\ ~Incomplete(runs[i].ctx)
      /\ runs[i].pc # "next"
      /\ Val(runs[i].ctx.from).username = Some(n) }

Latest(S) == CHOOSE i \in S : \A j \in S : j <= i

Reachable(rec, rs) == [fields |-> rec, raw |-> rs[rec.raw].ctx.msg]

\* C14: a record handed to the text index (or to the image index) is never
\* changed afterwards: in every later step its fields, its raw message and
\* that message's list of photo sizes stay as they were when it was handed
\* over.
C14_RecordFrozen ==
  [][/\ \A k \in 1..Len(queued) :
          Reachable(queued'[k].rec, runs') = Reachable(queued[k].rec, runs)
     /\ \A k \in 1..Len(imaged) :
          Reachable(imaged'[k].rec, runs') = Reachable(imaged[k].rec, runs)]_vars

HasPhotos(msg) == Has(msg.photo) /\ Val(msg.photo) # <<>>

\* C15: text dispatch and photo dispatch are independent, so that a supergroup
\* message reaches each of four outcomes according to its content: handled to
\* the end, a message that is no command has been dispatched to the text
\* index exactly if it has a payload and to the image index exactly if it has
\* photos (neither: no dispatch; payload only: text only; photos only: image
\* only; both: both).
C15_FourOutcomes ==
  \A i \in 1..Len(runs) :
    LET c == runs[i].ctx
        msg == Val(c.msg)
    IN  (/\ ~Incomplete(c)
         /\ Val(c.chat).type = supergroupStr
         /\ ~IsCommandText(Payload(msg))
         /\ runs[i].pc = "done")
          => /\ CallsOf(queued, i) # {} <=> Payload(msg) # <<>>
             /\ CallsOf(imaged, i) # {} <=> HasPhotos(msg)

\* a message the normalizer has to index: supergroup, payload, no command
Eligible(c) ==
  /\ ~Incomplete(c)
  /\ Val(c.chat).type = supergroupStr
  /\ Payload(Val(c.msg)) # <<>>
  /\ ~IsCommandText(Payload(Val(c.msg)))

\* C16: also while handlers overlap at their await points, the queueMessage
\* calls are issued in the order in which their updates arrived (runs is in
\* arrival order), every eligible update that has passed its await of next()
\* has exactly one call, and no other update has any.
C16_ArrivalOrder ==
  /\ \A k, l \in 1..Len(queued) : k < l => queued[k].run < queued[l].run
  /\ \A i \in 1..Len(runs) :
       Cardinality(CallsOf(queued, i)) =
         IF Eligible(runs[i].ctx) /\ runs[i].pc # "next" THEN 1 ELSE 0
  /\ \A i, j \in 1..Len(runs) :
       (i < j /\ Eligible(runs[i].ctx) /\ CallsOf(queued, j) # {})
         => CallsOf(queued, i) # {}

\* the first handler still awaits its file fetch while the second, arrived
\* later, awaits its queueMessage call
C16_Witness ==
  /\ Len(runs) = 2
  /\ runs[1].pc = "fetch"
  /\ runs[2].pc = "queue"
  /\ Len(queued) = 2
  /\ queued[1].run = 1
  /\ queued[2].run = 2

\* the text index as a map keyed by record id: each queueMessage call, in
\* the order of the calls, writes its record under the record's id
RECURSIVE TextIndex(_)
TextIndex(q) ==
  IF q = <<>> THEN <<>>
  ELSE LET before == TextIndex(SubSeq(q, 1, Len(q) - 1))
           rec == q[Len(q)].rec
       IN  [id \in DOMAIN before \cup {rec.id} |-> IF id = rec.id THEN rec ELSE before[id]]

\* the chat and message an update is about
PairOf(i) == <<Val(runs[i].ctx.chat).id, Val(runs[i].ctx.msg).message_id>>

\* C17: indexing is idempotent per (chat, message): the updates dispatched for
\* one chat and message (the same update twice, or a new message and then
\* its edit when edits are followed) leave exactly one record in the text
\* index, under chatId + '__' + messageId and built from the update that
\* arrived last; records of different (chat, message) pairs have different
\* ids; without edit-following an edit update changes nothing.
C17_Idempotent ==
  LET index == TextIndex(queued)
      Dispatched == {queued[k].run : k \in 1..Len(queued)}
  IN  /\ \A k, l \in 1..Len(queued) :
           (queued[k].rec.id = queued[l].rec.id) <=> (PairOf(queued[k].run) = PairOf(queued[l].run))
      /\ Cardinality(DOMAIN index) = Cardinality({PairOf(i) : i \in Dispatched})
      /\ \A i \in Dispatched :
           LET last == Latest({j \in Dispatched : PairOf(j) = PairOf(i)})
               id == supergroupStr \o WithoutMinus100(Val(runs[i].ctx.chat)) \o <<"_", "_">>
                       \o NumStr(Val(runs[i].ctx.msg).message_id)
           IN  /\ id \in DOMAIN index
               /\ index[id].text = Payload(Val(runs[last].ctx.msg))
               /\ index[id].fromId = UserFilter(Val(runs[last].ctx.from).id)[1]
               /\ index[id].raw = last
      /\ \A i \in 1..Len(runs) :
           (runs[i].ctx.update = "edited_message" /\ ~probe.followEdit)
             => runs[i].pc = "unhandled" /\ i \notin Dispatched

\* a new message 'hi' and then its edit to 'yo' have both been dispatched,
\* edits being followed; the index holds one record, with text 'yo'
C17_Witness ==
  /\ probe.followEdit
  /\ Len(runs) = 2
  /\ runs[1].ctx.update = "message"
  /\ runs[2].ctx.update = "edited_message"
  /\ PairOf(1) = PairOf(2)
  /\ Payload(Val(runs[1].ctx.msg)) = hiStr
  /\ Payload(Val(runs[2].ctx.msg)) = yoStr
  /\ Len(queued) = 2
  /\ Cardinality(DOMAIN TextIndex(queued)) = 1
  /\ \A id \in DOMAIN TextIndex(queued) : TextIndex(queued)[id].text = yoStr

\* run i handles a search command with chat, message, sender and query
ValidCommand(i) ==
  /\ i <= Len(runs)
  /\ runs[i].ctx.command
  /\ ~Incomplete(runs[i].ctx)
  /\ Has(runs[i].ctx.match)
  /\ Val(runs[i].ctx.match) # <<>>

\* the replies sent that refer to the message of run i
RepliesTo(i) ==
  { k \in 1..Len(replied) :
      replied[k].reply.reply_to_message_id = Val(runs[i].ctx.msg).message_id }

\* C18: every search command with chat, message, sender and a non-empty query
\* is eventually answered or has its search fail; as soon as its search call
\* has returned there is exactly one reply that refers to the command's
\* message, sent by its own handler, and no reply ever refers to a message
\* other than the command its handler was started for.
C18_OneReply ==
  /\ [](\A i \in 1..Len(runs) :
          /\ (ValidCommand(i) /\ Has(runs[i].hits))
               => /\ Cardinality(RepliesTo(i)) = 1
                  /\ RepliesTo(i) = CallsOf(replied, i)
          /\ ~Has(runs[i].hits) => CallsOf(replied, i) = {})
  /\ [](\A k \in 1..Len(replied) :
          /\ ValidCommand(replied[k].run)
          /\ k \in RepliesTo(replied[k].run))
  /\ \A i \in 1..MaxEvents :
       ValidCommand(i) ~> (/\ i <= Len(runs)
                           /\ \/ runs[i].pc = "raised"
                              \/ Cardinality(RepliesTo(i)) = 1)

\* two commands have been answered, the first with hits, each reply
\* referring to its own command
C18_Witness ==
  /\ Len(replied) = 2
  /\ replied[1].run # replied[2].run
  /\ Val(runs[replied[1].run].hits) # <<>>
  /\ \A k \in 1..2 :
       /\ ValidCommand(replied[k].run)
       /\ RepliesTo(replied[k].run) = {k}

\* run i handles a plain message of a sender named n in a private or basic
\* group chat
LearnedOutside(i, n) ==
  /\ ~runs[i].ctx.command
  /\ ~Incomplete(runs[i].ctx)
  /\ Val(runs[i].ctx.chat).type \in {privateStr, groupStr}
  /\ Val(runs[i].ctx.from).username = Some(n)

\* run j handles a search command in a supergroup whose only mention names n
AsksFor(j, n) ==
  /\ NonPrivateCommand(runs[j].ctx)
  /\ Val(runs[j].ctx.chat).type = supergroupStr
  /\ Has(Val(runs[j].ctx.msg).text)
  /\ ~HasEntity(Val(runs[j].ctx.msg), "text_mention")
  /\ HasEntity(Val(runs[j].ctx.msg), "mention")
  /\ NamedBy(Val(runs[j].ctx.msg), FirstEntity(Val(runs[j].ctx.msg), "mention")) = n

\* C19: userMap is written for every chat kind, before the chat-kind test: a
\* message in a private or basic-group chat yields no record but stores its
\* sender's username and id, and a later search command in a supergroup that
\* mentions this username (no other update of a sender so named having
\* arrived before the command) is resolved to that id and searches with the
\* user filter 'user' + id.
C19_LearnedEverywhere ==
  \A i \in 1..Len(runs) : \A n \in {alStr, boStr} :
    (LearnedOutside(i, n) /\ runs[i].pc # "next")
      => /\ n \in DOMAIN userMap
         /\ CallsOf(queued, i) = {}
         /\ \A j \in (i + 1)..Len(runs) :
              (/\ AsksFor(j, n)
               /\ runs[j].pc # "next"
               /\ \A l \in (1..(j - 1)) \ {i} :
                    ~(Has(runs[l].ctx.from) /\ Val(runs[l].ctx.from).username = Some(n)))
                => /\ runs[j].mention = Some(Val(runs[i].ctx.from).id)
                   /\ \A k \in CallsOf(searched, j) :
                        searched[k].args.fromId = UserFilter(Val(runs[i].ctx.from).id)

\* user 7, named 'al', wrote in their private chat; then a search command in
\* the supergroup mentioning '@al', sent by a user without username, has
\* searched with the user filter 'user7'
C19_Witness ==
  /\ Len(runs) = 2
  /\ LearnedOutside(1, alStr)
  /\ Val(runs[1].ctx.chat).type = privateStr
  /\ Val(runs[1].ctx.from).id = 7
  /\ AsksFor(2, alStr)
  /\ Val(runs[2].ctx.from).username = None
  /\ \E k \in CallsOf(searched, 2) : searched[k].args.fromId = UserFilter(7)

\* C20: photo handling comes strictly after the text dispatch of its handler:
\* the file fetch is started only in the step in which the handler's one
\* queueMessage call resolves, and indexImage is called only when that fetch
\* resolves, for the record that was queued; a handler whose queueMessage call
\* fails ends with that failure, without file fetch and without indexImage
\* call, and a failed handler makes no further call (nothing is retried); a
\* message with photos ends normally only after its indexImage call.
C20_TextBeforeImage ==
  /\ [](\A i \in 1..Len(runs) :
          /\ (CallsOf(fetched, i) # {} \/ CallsOf(imaged, i) # {})
               => /\ Cardinality(CallsOf(queued, i)) = 1
                  /\ runs[i].pc # "queue"
          /\ \A k \in CallsOf(imaged, i) : \A q \in CallsOf(queued, i) :
               imaged[k].rec = queued[q].rec
          /\ Cardinality(CallsOf(fetched, i)) <= 1
          /\ Cardinality(CallsOf(imaged, i)) <= Cardinality(CallsOf(fetched, i))
          /\ (Eligible(runs[i].ctx) /\ HasPhotos(Val(runs[i].ctx.msg)) /\ runs[i].pc = "done")
               => CallsOf(imaged, i) # {})
  /\ [][\A i \in 1..Len(runs) :
          /\ CallsOf(fetched', i) # CallsOf(fetched, i)
               => runs[i].pc = "queue" /\ runs'[i].pc = "fetch"
          /\ CallsOf(imaged', i) # CallsOf(imaged, i)
               => runs[i].pc = "fetch" /\ runs'[i].pc = "image"
          /\ (runs[i].pc = "queue" /\ runs'[i].pc = "raised")
               => <<queued, fetched, imaged>>' = <<queued, fetched, imaged>>
          /\ runs[i].pc = "raised"
               => /\ runs'[i] = runs[i]
                  /\ CallsOf(queued', i) = CallsOf(queued, i)
                  /\ CallsOf(fetched', i) = CallsOf(fetched, i)
                  /\ CallsOf(imaged', i) = CallsOf(imaged, i)]_vars

\* of two captioned photos, one handler has ended with the failure of its
\* queueMessage call and without a fetch, the other after its indexImage call
C20_Witness ==
  \E i, j \in 1..Len(runs) :
    /\ Eligible(runs[i].ctx)
    /\ HasPhotos(Val(runs[i].ctx.msg))
    /\ runs[i].pc = "raised"
    /\ Cardinality(CallsOf(queued, i)) = 1
    /\ CallsOf(fetched, i) = {}
    /\ CallsOf(imaged, i) = {}
    /\ runs[j].pc = "done"
    /\ CallsOf(imaged, j) # {}

====
